---- MODULE Spec2Model ----
(***************************************************************************)
(* Model of geojson_api_tool.py: the batch submission pipeline             *)
(* (run_pipeline, geojson_to_mapmatch_body, send_to_api,                   *)
(* _response_to_features, save_geojson).                                   *)
(*                                                                         *)
(* One run of run_pipeline is split into steps at its blocking calls:      *)
(* reading the file, the throttle sleep, each requests.post, the retry     *)
(* sleep and the save.  Everything the function does between two blocking  *)
(* calls belongs to the step that precedes it, the exception handlers of   *)
(* send_to_api and run_pipeline included.                                  *)
(***************************************************************************)
EXTENDS Integers, Sequences, FiniteSets, TLC

(* ------------------------------ bounds --------------------------------- *)

\* longest feature sequence of an input document
MaxFeatures == 3
\* largest value MAX_WAYPOINTS_PER_REQUEST is scaled down to
MaxBatchSize == 2
MaxRuns == 2
MaxMessages == 2
MaxSelections == 2

(* ------------------------- program constants --------------------------- *)

API_RETRIES == 3

None == "None"

(* ------------------- exception classes and handlers -------------------- *)

\* The classes an exception of class cls is an instance of (its MRO).
\* requests.exceptions.RequestException derives from IOError (= OSError);
\* requests.exceptions.JSONDecodeError (requests >= 2.27) derives from
\* InvalidJSONError (a RequestException) and from json.JSONDecodeError.
Ancestors(cls) ==
  CASE cls = "HTTPError" ->
         {"HTTPError", "RequestException", "OSError", "Exception"}
    [] cls = "ConnectionError" ->
         {"ConnectionError", "RequestException", "OSError", "Exception"}
    [] cls = "TooManyRedirects" ->
         {"TooManyRedirects", "RequestException", "OSError", "Exception"}
    [] cls = "RequestsJSONDecodeError" ->
         {"RequestsJSONDecodeError", "InvalidJSONError", "RequestException",
          "OSError", "JSONDecodeError", "ValueError", "Exception"}
    [] cls = "RequestException" ->
         {"RequestException", "OSError", "Exception"}
    [] cls = "JSONDecodeError" ->
         {"JSONDecodeError", "ValueError", "Exception"}
    [] cls = "UnicodeDecodeError" ->
         {"UnicodeDecodeError", "ValueError", "Exception"}
    [] cls = "FileNotFoundError" ->
         {"FileNotFoundError", "OSError", "Exception"}
    [] cls = "PermissionError" ->
         {"PermissionError", "OSError", "Exception"}
    [] cls = "ValueError" -> {"ValueError", "Exception"}
    [] cls = "TypeError" -> {"TypeError", "Exception"}
    [] cls = "AttributeError" -> {"AttributeError", "Exception"}

IsInstance(cls, classes) == Ancestors(cls) \cap classes # {}

\* The except clauses of send_to_api, in source order; the first clause
\* whose classes match the raised exception handles it.
\* Variant: the clauses without the HTTPError clause.
ApiHandler_NoHTTPClause(cls) ==
  IF IsInstance(cls, {"ConnectionError", "OSError"}) THEN "connection"
  ELSE IF IsInstance(cls, {"RequestException"}) THEN "request"
  ELSE IF IsInstance(cls, {"JSONDecodeError"}) THEN "json"
  ELSE "unhandled"

ApiHandler(cls) ==
  IF IsInstance(cls, {"HTTPError"}) THEN "http"
  ELSE IF IsInstance(cls, {"ConnectionError", "OSError"}) THEN "connection"
  ELSE IF IsInstance(cls, {"RequestException"}) THEN "request"
  ELSE IF IsInstance(cls, {"JSONDecodeError"}) THEN "json"
  ELSE "unhandled"

\* `if attempt < API_RETRIES` in the connection handler: sleep and go round
\* the loop again, otherwise raise.
\* Variants: `attempt <= API_RETRIES`; no test at all.
RetryAgain_Inclusive(a) == a <= API_RETRIES

RetryAgain_Always(a) == TRUE

RetryAgain(a) == a < API_RETRIES

\* The except clauses of run_pipeline, in source order: the severity of the
\* message the matching clause logs (each clause then returns None).
\* Variant: the clauses without the final `except Exception`.
PipelineHandler_NoCatchAll(cls) ==
  IF IsInstance(cls, {"FileNotFoundError"}) THEN "error"
  ELSE IF IsInstance(cls, {"JSONDecodeError"}) THEN "error"
  ELSE IF IsInstance(cls, {"ValueError"}) THEN "error"
  ELSE IF IsInstance(cls, {"RequestException"}) THEN "error"
  ELSE "uncaught"

PipelineHandler(cls) ==
  IF IsInstance(cls, {"FileNotFoundError"}) THEN "error"
  ELSE IF IsInstance(cls, {"JSONDecodeError"}) THEN "error"
  ELSE IF IsInstance(cls, {"ValueError"}) THEN "error"
  ELSE IF IsInstance(cls, {"RequestException"}) THEN "error"
  ELSE IF IsInstance(cls, {"Exception"}) THEN "error"
  ELSE "uncaught"

(* --------------------------- input documents --------------------------- *)

\* A JSON value as the converter sees it: k is its Python type, v its value
\* (for "str": 0 is the empty string, any other number a non-numeric text).
Val(k, v) == [k |-> k, v |-> v]
Absent == Val("absent", 0)

\* Python truthiness of a dict.get(...) result: a missing key gives None;
\* None, 0, 0.0, "" and an empty list are falsy ("list": v is its length).
Truthy(x) == /\ x.k \notin {"absent", "null"}
             /\ ~(x.k \in {"int", "float", "str", "list"} /\ x.v = 0)

\* x or y
PyOr(x, y) == IF Truthy(x) THEN x ELSE y

\* float(x): the class of the exception it raises, or None
FloatError(x) ==
  IF x.k \in {"int", "float"} THEN None
  ELSE IF x.k = "str" THEN "ValueError"
  ELSE "TypeError"

Float(x) == Val("float", x.v)

\* A feature: its geometry's coordinates (<< >> when the feature has no
\* geometry or no coordinates) and the two properties the converter reads.
Feature(coords, ts, t) == [coordinates |-> coords, timestamp |-> ts, t |-> t]

\* datetime.fromtimestamp(ts, tz=utc).strftime("%Y-%m-%dT%H:%M:%S.000Z"),
\* the date kept as the number of days since 1970-01-01.
StrfTime(secs) ==
  [text |-> 0,
   day |-> secs \div 86400,
   hh |-> (secs % 86400) \div 3600,
   mm |-> (secs % 3600) \div 60,
   ss |-> secs % 60]

\* Variant: a string is not passed through but replaced by the clock reading.
timestamp_to_iso_TextAsNow(ts, now) ==
  IF ts.k \in {"int", "float"} THEN StrfTime(ts.v) ELSE StrfTime(now)

timestamp_to_iso(ts, now) ==
  IF ts.k \in {"int", "float"} THEN StrfTime(ts.v)
  ELSE IF ts.k = "str" THEN [text |-> ts.v, day |-> 0, hh |-> 0, mm |-> 0, ss |-> 0]
  ELSE StrfTime(now)

\* ts = props.get("timestamp") or props.get("t") or (i * 10)
ResolvedTs(f, i) == PyOr(PyOr(f.timestamp, f.t), Val("int", i * 10))

\* The waypoint the loop of geojson_to_mapmatch_body appends for feature f
\* at zero-based position i.
Waypoint(f, i, now) ==
  [timestamp |-> timestamp_to_iso(ResolvedTs(f, i), now),
   location |-> <<Float(f.coordinates[1]), Float(f.coordinates[2])>>]

\* Variant: `len(coords) <= 2`.
Skipped_TwoOrFewer(f) == Len(f.coordinates) <= 2

Skipped(f) == Len(f.coordinates) < 2

CoerceError(f) ==
  IF FloatError(f.coordinates[1]) # None THEN FloatError(f.coordinates[1])
  ELSE FloatError(f.coordinates[2])

\* `if not coords or len(coords) < 2: continue`
\* (Skipped), then float(coords[0]), float(coords[1]) (CoerceError).
\* geojson_to_mapmatch_body(geojson)["waypoints"], from position i on:
\* [err |-> class of the exception raised or None, waypoints |-> the list].
RECURSIVE ConvertFrom(_, _, _)
ConvertFrom(features, i, now) ==
  IF i > Len(features) THEN [err |-> None, waypoints |-> << >>]
  ELSE LET f == features[i]
           rest == ConvertFrom(features, i + 1, now)
       IN IF Skipped(f) THEN rest
          ELSE IF CoerceError(f) # None
                 THEN [err |-> CoerceError(f), waypoints |-> << >>]
          ELSE IF rest.err # None THEN rest
          ELSE [err |-> None,
                waypoints |-> <<Waypoint(f, i - 1, now)>> \o rest.waypoints]

geojson_to_mapmatch_body(features, now) == ConvertFrom(features, 1, now)

(* ----------------------------- API responses --------------------------- *)

\* The body resp.json() returns for batch b on attempt a.  isDict is FALSE
\* for a JSON document that is no object (an array, null, a number);
\* features is the value of its "features" key when that is a list.
Body(isDict, type, hasList, n, hasGeometry, b, a) ==
  [isDict |-> isDict, type |-> type, hasFeaturesList |-> hasList,
   features |-> [j \in 1..n |-> [src |-> "listed", batch |-> b, j |-> j]],
   hasGeometry |-> hasGeometry, batch |-> b, attempt |-> a]

NoBody == Body(FALSE, None, FALSE, 0, FALSE, 0, 0)

\* The documents the API answers with in this model.
Bodies(b, a) ==
  { Body(TRUE, "FeatureCollection", TRUE, 0, FALSE, b, a),
    Body(TRUE, "FeatureCollection", TRUE, 2, FALSE, b, a),
    Body(TRUE, "Feature", FALSE, 0, TRUE, b, a),
    Body(TRUE, None, FALSE, 0, TRUE, b, a),
    Body(TRUE, None, FALSE, 0, FALSE, b, a),
    Body(FALSE, None, FALSE, 0, FALSE, b, a) }

\* Variant: the test of `type` comes first.
_response_to_features_TypeFirst(resp) ==
  IF resp.type = "Feature"
    THEN << [src |-> "whole", batch |-> resp.batch, j |-> 0] >>
  ELSE IF resp.hasFeaturesList THEN resp.features
  ELSE IF resp.hasGeometry
         THEN << [src |-> "synth", batch |-> resp.batch, j |-> 0] >>
  ELSE << >>

_response_to_features(resp) ==
  IF resp.hasFeaturesList THEN resp.features
  ELSE IF resp.type = "Feature"
         THEN << [src |-> "whole", batch |-> resp.batch, j |-> 0] >>
  ELSE IF resp.hasGeometry
         THEN << [src |-> "synth", batch |-> resp.batch, j |-> 0] >>
  ELSE << >>

\* What one requests.post / raise_for_status / resp.json() can end in:
\* "ok" or the class of the exception raised inside the try block.
PostOutcomes ==
  {"ok", "HTTPError", "ConnectionError", "TooManyRedirects",
   "RequestsJSONDecodeError", "JSONDecodeError"}

(* ------------------------------ batching ------------------------------- *)

Min(a, b) == IF a < b THEN a ELSE b

\* total_batches = (len(waypoints) + MAX - 1) // MAX
TotalBatches(n, m) == (n + m - 1) \div m

\* waypoints[i : i + MAX] (i zero-based, Python slice semantics)
\* Variant: the slice ends one element early.
Chunk_DropsLast(wps, i, m) == SubSeq(wps, i + 1, Min(i + m, Len(wps)) - 1)

Chunk(wps, i, m) == SubSeq(wps, i + 1, Min(i + m, Len(wps)))

\* batch_num = (i // MAX) + 1
BatchNum(i, m) == (i \div m) + 1

(* ------------------------------- state --------------------------------- *)

VARIABLES
  pc,             \* where run_pipeline is: Idle, Reading, Converting,
                  \* Submitting, RetryDelay, Throttling, Saving, Done, Failed
  file,           \* the input file at input_path
  maxPerRequest,  \* MAX_WAYPOINTS_PER_REQUEST, scaled down
  geojson,        \* run_pipeline: the feature list of the parsed document
  waypoints,      \* run_pipeline: body["waypoints"]
  total_batches,  \* run_pipeline: total_batches
  i,              \* run_pipeline: the loop variable of the batch loop
  all_features,   \* run_pipeline: all_features
  response,       \* run_pipeline: what send_to_api returned last
  attempt,        \* send_to_api: the loop variable attempt
  last_err,       \* send_to_api: last_err
  result,         \* what run_pipeline returned: Unset, None or the path
  raised,         \* the exception that reached run_pipeline's handlers
  lastLevel,      \* severity of the last message given to log_callback
  outFile,        \* the output file: absent, opened (partly written), written
  posts,          \* number of requests.post calls of the run
  throttles,      \* number of time.sleep(DELAY_BETWEEN_BATCHES_SEC) calls
  retrySleeps,    \* number of time.sleep(RETRY_DELAY_SEC) calls
  history,        \* the attempts of the current send_to_api call, in order
  submitted,      \* the chunks handed to send_to_api, in order
  extended,       \* batch numbers whose features all_features.extend added
  batch_features, \* what _response_to_features gave for each batch, in order
  merged          \* run_pipeline: merged, the document handed to save_geojson

\* The converter and the feature extraction taken alone, as functions of
\* their argument.
VARIABLES
  conv_pc,        \* geojson_to_mapmatch_body was called: "No", "Once", "Twice"
  conv_doc,       \* the feature list of the document it is called on
  conv_first,     \* the first call: clock reading, exception class, waypoints
  conv_second,    \* the second call on the same document
  extract_pc,     \* _response_to_features was called: "No", "Called"
  extract_resp,   \* its argument
  extract_out     \* the list it returned

convVars == <<conv_pc, conv_doc, conv_first, conv_second>>
extractVars == <<extract_pc, extract_resp, extract_out>>

\* The front end (main): the Tk main thread and the worker threads.
VARIABLES
  send_btn,       \* state of send_btn: "normal" or "disabled"
  current_file,   \* current_file[0]
  log_queue,      \* log_queue, oldest item first
  log_view,       \* the lines of log_view, oldest first
  ui_pc,          \* the main thread: "mainloop" (between callbacks) or
                  \* "draining" (inside the loop of process_log_queue)
  after_pending,  \* number of process_log_queue calls scheduled by root.after
  workers,        \* the worker threads started so far, one per run, in order
  selections      \* number of file dialogs closed so far

uiVars == <<send_btn, current_file, log_queue, log_view, ui_pc, after_pending,
            workers, selections>>

vars == <<pc, file, maxPerRequest, geojson, waypoints, total_batches, i,
          all_features, response, attempt, last_err, result, raised,
          lastLevel, outFile, posts, throttles, retrySleeps, history,
          submitted, extended, batch_features, merged,
          convVars, extractVars, uiVars>>

Unset == "Unset"
OutPath == "out_path"

NoErr == [cls |-> None, attempt |-> 0]
NoExc == [cls |-> None, cause |-> NoErr, stage |-> None]
NoDoc == [type |-> None, features |-> << >>]

\* The features an input document is built from: without geometry, with a
\* single coordinate, a point, and two whose coordinates float() rejects.
PipelineFeatures ==
  { Feature(<< >>, Absent, Absent),
    Feature(<<Val("float", 1)>>, Absent, Absent),
    Feature(<<Val("int", 10), Val("int", 50)>>, Absent, Absent),
    Feature(<<Val("str", 1), Val("int", 50)>>, Absent, Absent),
    Feature(<<Val("int", 10), Val("null", 0)>>, Absent, Absent) }

Documents == UNION { [1..n -> PipelineFeatures] : n \in 0..MaxFeatures }

\* The input file: missing, unreadable, not UTF-8, not JSON, a JSON array,
\* or a JSON object with the given feature list.
Files ==
  { [state |-> s, features |-> << >>] :
      s \in {"missing", "denied", "notutf8", "notjson", "array"} }
  \cup { [state |-> "object", features |-> d] : d \in Documents }

\* datetime.now(timezone.utc), in seconds since the epoch
NowValues == {90061, 90122}

NoCall == [now |-> 0, err |-> None, waypoints |-> << >>]

\* No call of the converter or of the extraction on its own.
ConvIdle ==
  /\ conv_pc = "No"
  /\ conv_doc = << >>
  /\ conv_first = NoCall
  /\ conv_second = NoCall

ExtractIdle ==
  /\ extract_pc = "No"
  /\ extract_resp = NoBody
  /\ extract_out = << >>

\* An item of log_queue or a line of log_view: kind is "msg" (message k of
\* the run_pipeline call of run number run), "done" (the "__done__" item put
\* by that run's worker), "chosen" (the line choose_file writes) or "ready"
\* (the two lines main writes before the main loop).
Item(kind, run, k) == [kind |-> kind, run |-> run, k |-> k]

\* The front end as main leaves it when it enters root.mainloop().
UiIdle ==
  /\ send_btn = "normal"
  /\ current_file = None
  /\ log_queue = << >>
  /\ log_view = << Item("ready", 0, 1), Item("ready", 0, 2) >>
  /\ ui_pc = "mainloop"
  /\ after_pending = 0
  /\ workers = << >>
  /\ selections = 0

Init ==
  /\ ConvIdle
  /\ ExtractIdle
  /\ UiIdle
  /\ pc = "Idle"
  /\ file \in Files
  /\ maxPerRequest \in 1..MaxBatchSize
  /\ geojson = << >>
  /\ waypoints = << >>
  /\ total_batches = 0
  /\ i = 0
  /\ all_features = << >>
  /\ response = NoBody
  /\ attempt = 0
  /\ last_err = NoErr
  /\ result = Unset
  /\ raised = NoExc
  /\ lastLevel = None
  /\ outFile = "absent"
  /\ posts = 0
  /\ throttles = 0
  /\ retrySleeps = 0
  /\ history = << >>
  /\ submitted = << >>
  /\ extended = << >>
  /\ batch_features = << >>
  /\ merged = NoDoc

(* ------------------------------ run_pipeline --------------------------- *)

\* An exception of class cls reaches the except clauses of run_pipeline:
\* the matching clause logs one message and returns None.
Fail(cls, cause, stage) ==
  /\ raised' = [cls |-> cls, cause |-> cause, stage |-> stage]
  /\ IF PipelineHandler(cls) = "uncaught"
       THEN /\ pc' = "Raised"
            /\ UNCHANGED <<lastLevel, result>>
       ELSE /\ pc' = "Failed"
            /\ lastLevel' = PipelineHandler(cls)
            /\ result' = None

\* `if not waypoints:`
\* Variant: the empty check is missing.
IsEmpty_Never(wps) == FALSE

IsEmpty(wps) == wps = << >>

\* `for i in range(0, len(waypoints), MAX_WAYPOINTS_PER_REQUEST)`: the loop
\* goes on while the index is below the length (MoreBatches) and steps by
\* MAX_WAYPOINTS_PER_REQUEST (NextIndex).
\* Variants: a range that ends one index early, a step one too short.
MoreBatches_StopsEarly(k, n) == k + 1 < n

MoreBatches(k, n) == k < n

NextIndex_Overlap(k, m) == k + m - 1

NextIndex(k, m) == k + m

\* `if i > 0: time.sleep(DELAY_BETWEEN_BATCHES_SEC)`
\* Variant: the throttle is missing.
NeedsThrottle_Never(k) == FALSE

NeedsThrottle(k) == k > 0

\* The body of the batch loop after the throttle, for the batch that starts
\* at index k: chunk, chunk_body, batch_num, log, then the first lines of
\* send_to_api (last_err = None, attempt = 1).
EnterBatch(wps, k) ==
  /\ i' = k
  /\ submitted' = Append(submitted, Chunk(wps, k, maxPerRequest))
  /\ attempt' = 1
  /\ last_err' = NoErr
  /\ history' = << >>
  /\ lastLevel' = "info"
  /\ pc' = "Submitting"

\* The for loop of run_pipeline arrives at index k: the loop ends (the two
\* log lines after it come next, then the save), or the throttle sleep comes
\* first, or the batch is entered at once.  hist is the attempt history to
\* keep while no new send_to_api call has started.
LoopHead(wps, k, hist) ==
  IF ~MoreBatches(k, Len(wps))
    THEN /\ lastLevel' = "info"
         /\ pc' = "Saving"
         /\ history' = hist
         /\ UNCHANGED <<i, submitted, attempt, last_err>>
  ELSE IF NeedsThrottle(k)
    THEN /\ i' = k
         /\ lastLevel' = "info"
         /\ pc' = "Throttling"
         /\ history' = hist
         /\ UNCHANGED <<submitted, attempt, last_err>>
  ELSE EnterBatch(wps, k)

\* run_pipeline is called: log("Eingabe: ...").
Run ==
  /\ pc = "Idle"
  /\ pc' = "Reading"
  /\ lastLevel' = "info"
  /\ UNCHANGED <<convVars, extractVars, uiVars>>
  /\ UNCHANGED <<file, maxPerRequest, geojson, waypoints, total_batches, i,
                 all_features, response, attempt, last_err, result, raised,
                 outFile, posts, throttles, retrySleeps, history, submitted,
                 extended, batch_features, merged>>

\* read_geojson(input_path) and geojson.get("features").
ReadGeojson ==
  /\ pc = "Reading"
  /\ IF file.state = "object"
       THEN /\ geojson' = file.features
            /\ lastLevel' = "info"
            /\ pc' = "Converting"
            /\ UNCHANGED <<raised, result>>
       ELSE /\ Fail(CASE file.state = "missing" -> "FileNotFoundError"
                      [] file.state = "denied" -> "PermissionError"
                      [] file.state = "notutf8" -> "UnicodeDecodeError"
                      [] file.state = "notjson" -> "JSONDecodeError"
                      [] file.state = "array" -> "AttributeError",
                    NoErr, "read")
            /\ UNCHANGED geojson
  /\ UNCHANGED <<convVars, extractVars, uiVars>>
  /\ UNCHANGED <<file, maxPerRequest, waypoints, total_batches, i,
                 all_features, response, attempt, last_err, outFile, posts,
                 throttles, retrySleeps, history, submitted, extended,
                 batch_features, merged>>

\* geojson_to_mapmatch_body, the empty check, build_request_url,
\* total_batches and the start of the batch loop up to its first blocking
\* call.
Convert ==
  /\ pc = "Converting"
  /\ \E now \in NowValues :
       LET r == geojson_to_mapmatch_body(geojson, now) IN
         IF r.err # None
           THEN /\ Fail(r.err, NoErr, "convert")
                /\ UNCHANGED <<waypoints, total_batches, i, all_features,
                               attempt, last_err, history, submitted>>
         ELSE IF IsEmpty(r.waypoints)
           THEN /\ waypoints' = r.waypoints
                /\ lastLevel' = "error"
                /\ result' = None
                /\ pc' = "Failed"
                /\ UNCHANGED <<raised, total_batches, i, all_features,
                               attempt, last_err, history, submitted>>
         ELSE /\ waypoints' = r.waypoints
              /\ all_features' = << >>
              /\ total_batches' = TotalBatches(Len(r.waypoints), maxPerRequest)
              /\ LoopHead(r.waypoints, 0, << >>)
              /\ UNCHANGED <<raised, result>>
  /\ UNCHANGED <<convVars, extractVars, uiVars>>
  /\ UNCHANGED <<file, maxPerRequest, geojson, response, outFile, posts,
                 throttles, retrySleeps, extended, batch_features, merged>>

\* time.sleep(DELAY_BETWEEN_BATCHES_SEC), then the rest of the iteration up
\* to the first POST of the batch.
Throttle ==
  /\ pc = "Throttling"
  /\ throttles' = throttles + 1
  /\ EnterBatch(waypoints, i)
  /\ UNCHANGED <<convVars, extractVars, uiVars>>
  /\ UNCHANGED <<file, maxPerRequest, geojson, waypoints, total_batches,
                 all_features, response, result, raised, outFile, posts,
                 retrySleeps, extended, batch_features, merged>>

(* ------------------------------ send_to_api ---------------------------- *)

\* all_features.extend(feats)
\* Variant: the new features go in front.
Extend_Prepend(acc, feats) == feats \o acc

Extend(acc, feats) == acc \o feats

\* send_to_api returned body: all_features.extend(_response_to_features(..)),
\* then the next turn of the batch loop.
Returned(body, hist) ==
  /\ response' = body
  /\ IF ~body.isDict
       THEN /\ Fail("AttributeError", NoErr, "extract")
            /\ history' = hist
            /\ UNCHANGED <<all_features, extended, batch_features, i,
                           submitted, attempt, last_err>>
       ELSE /\ all_features' = Extend(all_features, _response_to_features(body))
            /\ batch_features' = Append(batch_features, _response_to_features(body))
            /\ extended' = Append(extended, BatchNum(i, maxPerRequest))
            /\ LoopHead(waypoints, NextIndex(i, maxPerRequest), hist)
            /\ UNCHANGED <<raised, result>>

\* One pass through the try block of send_to_api: requests.post,
\* raise_for_status, resp.json(), and the except clause that handles what
\* they raise.
Post ==
  /\ pc = "Submitting"
  /\ attempt \in 1..API_RETRIES
  /\ posts' = posts + 1
  /\ \E outcome \in PostOutcomes :
       IF outcome = "ok"
         THEN \E body \in Bodies(BatchNum(i, maxPerRequest), attempt) :
                /\ Returned(body, Append(history, [cls |-> "ok", body |-> body]))
                /\ UNCHANGED retrySleeps
         ELSE /\ history' = Append(history, [cls |-> outcome, body |-> NoBody])
              /\ UNCHANGED <<response, all_features, extended, batch_features,
                             i, submitted, attempt, retrySleeps>>
              /\ IF ApiHandler(outcome) = "connection"
                   THEN /\ last_err' = [cls |-> outcome, attempt |-> attempt]
                        /\ IF RetryAgain(attempt)
                             THEN /\ lastLevel' = "info"
                                  /\ pc' = "RetryDelay"
                                  /\ UNCHANGED <<raised, result>>
                             ELSE Fail("RequestException", last_err', "submit")
                   ELSE /\ Fail(outcome, NoErr, "submit")
                        /\ UNCHANGED last_err
  /\ UNCHANGED <<convVars, extractVars, uiVars>>
  /\ UNCHANGED <<file, maxPerRequest, geojson, waypoints, total_batches,
                 outFile, throttles, merged>>

\* time.sleep(RETRY_DELAY_SEC) and the next turn of `for attempt in
\* range(1, API_RETRIES + 1)`; a loop that runs out returns None, which
\* _response_to_features rejects.
RetrySleep ==
  /\ pc = "RetryDelay"
  /\ retrySleeps' = retrySleeps + 1
  /\ attempt' = attempt + 1
  /\ IF attempt + 1 \in 1..API_RETRIES
       THEN /\ pc' = "Submitting"
            /\ UNCHANGED <<raised, result, lastLevel>>
       ELSE Fail("AttributeError", NoErr, "extract")
  /\ UNCHANGED <<convVars, extractVars, uiVars>>
  /\ UNCHANGED <<file, maxPerRequest, geojson, waypoints, total_batches, i,
                 all_features, response, last_err, outFile, posts, throttles,
                 history, submitted, extended, batch_features, merged>>

(* ------------------------------- saving -------------------------------- *)

\* merged = {"type": "FeatureCollection", "features": all_features}
Merged(feats) == [type |-> "FeatureCollection", features |-> feats]

\* out_dir.mkdir, merged, save_geojson (open, json.dump), log, return the
\* path.  mkdir fails before merged is built.
Save ==
  /\ pc = "Saving"
  /\ \E outcome \in {"ok", "mkdir", "open", "write"} :
       CASE outcome = "ok" ->
              /\ merged' = Merged(all_features)
              /\ outFile' = "written"
              /\ lastLevel' = "success"
              /\ result' = OutPath
              /\ pc' = "Done"
              /\ UNCHANGED raised
         [] outcome = "write" ->
              /\ merged' = Merged(all_features)
              /\ outFile' = "opened"
              /\ Fail("PermissionError", NoErr, "save")
         [] outcome = "open" ->
              /\ merged' = Merged(all_features)
              /\ UNCHANGED outFile
              /\ Fail("PermissionError", NoErr, "save")
         [] OTHER ->
              /\ UNCHANGED <<outFile, merged>>
              /\ Fail("PermissionError", NoErr, "save")
  /\ UNCHANGED <<convVars, extractVars, uiVars>>
  /\ UNCHANGED <<file, maxPerRequest, geojson, waypoints, total_batches, i,
                 all_features, response, attempt, last_err, posts, throttles,
                 retrySleeps, history, submitted, extended, batch_features>>

Next ==
  \/ Run
  \/ ReadGeojson
  \/ Convert
  \/ Throttle
  \/ Post
  \/ RetrySleep
  \/ Save

Spec == Init /\ [][Next]_vars

\* The same run when every blocking call (file read, sleep, HTTP exchange
\* within its timeout, save) returns or fails: a step that can be taken is
\* taken.
FairSpec == Spec /\ WF_vars(Next)

(* ------------------------- the converter on its own -------------------- *)

pipeVars == <<pc, file, maxPerRequest, geojson, waypoints, total_batches, i,
              all_features, response, attempt, last_err, result, raised,
              lastLevel, outFile, posts, throttles, retrySleeps, history,
              submitted, extended, batch_features, merged>>

\* No run of run_pipeline.
PipelineIdle ==
  /\ pc = "Idle"
  /\ file = [state |-> "missing", features |-> << >>]
  /\ maxPerRequest = 1
  /\ geojson = << >>
  /\ waypoints = << >>
  /\ total_batches = 0
  /\ i = 0
  /\ all_features = << >>
  /\ response = NoBody
  /\ attempt = 0
  /\ last_err = NoErr
  /\ result = Unset
  /\ raised = NoExc
  /\ lastLevel = None
  /\ outFile = "absent"
  /\ posts = 0
  /\ throttles = 0
  /\ retrySleeps = 0
  /\ history = << >>
  /\ submitted = << >>
  /\ extended = << >>
  /\ batch_features = << >>
  /\ merged = NoDoc

Point == <<Val("int", 10), Val("int", 50)>>
Point3 == <<Val("float", 11), Val("float", 51), Val("int", 200)>>

\* The features a document given to the converter is built from: skipped
\* ones, points with every combination of the two timestamp properties the
\* `or` chain tells apart (missing, falsy, number, text, another type), and
\* one whose coordinates float() rejects.
ConvFeatures ==
  { Feature(<< >>, Absent, Absent),
    Feature(<<Val("float", 1)>>, Val("int", 70), Absent),
    Feature(Point, Absent, Absent),
    Feature(Point3, Val("int", 70), Val("int", 80)),
    Feature(Point, Val("int", 0), Val("int", 80)),
    Feature(Point, Val("float", 0), Val("str", 2)),
    Feature(Point, Val("str", 0), Val("int", 80)),
    Feature(Point3, Absent, Val("int", 80)),
    Feature(Point3, Val("str", 1), Absent),
    Feature(Point, Val("list", 1), Val("int", 80)),
    Feature(Point3, Val("int", 0), Val("int", 0)),
    Feature(<<Val("str", 1), Val("int", 50)>>, Absent, Absent) }

ConvDocuments == UNION { [1..n -> ConvFeatures] : n \in 0..MaxFeatures }

ConvInit ==
  /\ PipelineIdle
  /\ ExtractIdle
  /\ UiIdle
  /\ conv_pc = "No"
  /\ conv_doc \in ConvDocuments
  /\ conv_first = NoCall
  /\ conv_second = NoCall

\* One call geojson_to_mapmatch_body(geojson) while the clock reads now.
Call(features, now) ==
  [now |-> now,
   err |-> geojson_to_mapmatch_body(features, now).err,
   waypoints |-> geojson_to_mapmatch_body(features, now).waypoints]

ConvertOnce ==
  /\ conv_pc = "No"
  /\ \E now \in NowValues : conv_first' = Call(conv_doc, now)
  /\ conv_pc' = "Once"
  /\ UNCHANGED <<conv_doc, conv_second, pipeVars, extractVars, uiVars>>

\* The second call on the same document; the clock does not run backwards.
ConvertTwice ==
  /\ conv_pc = "Once"
  /\ \E now \in NowValues :
        /\ now >= conv_first.now
        /\ conv_second' = Call(conv_doc, now)
  /\ conv_pc' = "Twice"
  /\ UNCHANGED <<conv_doc, conv_first, pipeVars, extractVars, uiVars>>

ConvNext ==
  \/ ConvertOnce
  \/ ConvertTwice

SpecConv == ConvInit /\ [][ConvNext]_vars

(* --------------------- the feature extraction on its own --------------- *)

\* The JSON objects _response_to_features is called on: every value of
\* `type` it tells apart, with or without a list under "features" (of 0 to
\* MaxBatchSize elements), with or without a "geometry" key.
ExtractBodies ==
  { Body(TRUE, ty, hl, n, hg, b, a) :
      ty \in {"FeatureCollection", "Feature", None}, hl \in BOOLEAN,
      n \in 0..MaxBatchSize, hg \in BOOLEAN,
      b \in 1..MaxFeatures, a \in 1..API_RETRIES }

ExtractInit ==
  /\ PipelineIdle
  /\ ConvIdle
  /\ UiIdle
  /\ extract_pc = "No"
  /\ extract_resp \in { r \in ExtractBodies : ~r.hasFeaturesList => r.features = << >> }
  /\ extract_out = << >>

Extract ==
  /\ extract_pc = "No"
  /\ extract_out' = _response_to_features(extract_resp)
  /\ extract_pc' = "Called"
  /\ UNCHANGED <<extract_resp, pipeVars, convVars, uiVars>>

ExtractNext == Extract

SpecExtract == ExtractInit /\ [][ExtractNext]_vars

(* ------------------------------ the front end -------------------------- *)

\* The files the user can pick in the dialog.
Paths == {"a.geojson", "b.geojson"}

UiInit ==
  /\ PipelineIdle
  /\ ConvIdle
  /\ ExtractIdle
  /\ UiIdle

\* log_queue.put(item)
\* Variant: the item goes to the front of the queue.
Put_Front(q, item) == <<item>> \o q

Put(q, item) == Append(q, item)

\* send_btn.config(state="disabled") in run
\* Variant: run leaves the button as it is.
RunButtonState_Normal == "normal"

RunButtonState == "disabled"

\* `finally: log_queue.put(("__done__", None))`: whether the worker puts the
\* completion item when run_pipeline ended with the given outcome.
\* Variant: the put stands after the call instead of in a finally clause.
PutsDone_NoFinally(outcome) == outcome # "raised"

PutsDone(outcome) == TRUE

\* A worker thread just started by run: `triggered` is current_file[0] as
\* run saw it, `path` the input_path the thread passes to run_pipeline.
NewWorker(triggered) ==
  [pc |-> "start", triggered |-> triggered, path |-> None, sent |-> 0,
   outcome |-> None, dones |-> 0]

\* A thread that has ended keeps nothing but the fact that it ran and what
\* it put last: its locals are gone when the next run starts.
Ended(t) ==
  IF t.pc = "exited"
    THEN [t EXCEPT !.triggered = None, !.path = None, !.sent = 0, !.outcome = None]
    ELSE t

\* choose_file: the dialog returns a path, or "" when it is cancelled.
choose_file ==
  /\ ui_pc = "mainloop"
  /\ selections < MaxSelections
  /\ selections' = selections + 1
  /\ \E path \in Paths \cup {None} :
        IF path # None
          THEN /\ current_file' = path
               /\ log_view' = Append(log_view, Item("chosen", 0, 0))
          ELSE UNCHANGED <<current_file, log_view>>
  /\ UNCHANGED <<send_btn, log_queue, ui_pc, after_pending, workers>>
  /\ UNCHANGED <<pipeVars, convVars, extractVars>>

\* run, the command of send_btn (a disabled button does not call it), up to
\* its last statement, the direct call of process_log_queue.
run ==
  /\ ui_pc = "mainloop"
  /\ send_btn = "normal"
  /\ Len(workers) < MaxRuns
  /\ IF current_file = None
       THEN UNCHANGED uiVars
       ELSE /\ log_view' = << >>
            /\ send_btn' = RunButtonState
            /\ workers' = Append([w \in 1..Len(workers) |-> Ended(workers[w])],
                                 NewWorker(current_file))
            /\ ui_pc' = "draining"
            /\ UNCHANGED <<current_file, log_queue, after_pending, selections>>
  /\ UNCHANGED <<pipeVars, convVars, extractVars>>

\* One round of the loop of process_log_queue: get_nowait raises Empty and
\* the function reschedules itself, or it returns an item, which is the
\* completion item (enable the button, return) or a message to display.
process_log_queue ==
  /\ ui_pc = "draining"
  /\ IF log_queue = << >>
       THEN /\ after_pending' = after_pending + 1
            /\ ui_pc' = "mainloop"
            /\ UNCHANGED <<send_btn, log_queue, log_view>>
       ELSE /\ log_queue' = Tail(log_queue)
            /\ IF Head(log_queue).kind = "done"
                 THEN /\ send_btn' = "normal"
                      /\ ui_pc' = "mainloop"
                      /\ UNCHANGED log_view
                 ELSE /\ log_view' = Append(log_view, Head(log_queue))
                      /\ UNCHANGED <<send_btn, ui_pc>>
            /\ UNCHANGED after_pending
  /\ UNCHANGED <<current_file, workers, selections>>
  /\ UNCHANGED <<pipeVars, convVars, extractVars>>

\* The main loop runs a call scheduled by root.after(150, process_log_queue).
after_callback ==
  /\ ui_pc = "mainloop"
  /\ after_pending > 0
  /\ after_pending' = after_pending - 1
  /\ ui_pc' = "draining"
  /\ UNCHANGED <<send_btn, current_file, log_queue, log_view, workers, selections>>
  /\ UNCHANGED <<pipeVars, convVars, extractVars>>

\* The worker thread evaluates current_file[0] and calls run_pipeline.
worker_call(w) ==
  /\ workers[w].pc = "start"
  /\ workers' = [workers EXCEPT ![w].pc = "pipeline", ![w].path = current_file]
  /\ UNCHANGED <<send_btn, current_file, log_queue, log_view, ui_pc,
                 after_pending, selections>>
  /\ UNCHANGED <<pipeVars, convVars, extractVars>>

\* run_pipeline calls log_callback, that is thread_safe_log.
thread_safe_log(w) ==
  /\ workers[w].pc = "pipeline"
  /\ workers[w].sent < MaxMessages
  /\ log_queue' = Put(log_queue, Item("msg", w, workers[w].sent + 1))
  /\ workers' = [workers EXCEPT ![w].sent = @ + 1]
  /\ UNCHANGED <<send_btn, current_file, log_view, ui_pc, after_pending,
                 selections>>
  /\ UNCHANGED <<pipeVars, convVars, extractVars>>

\* run_pipeline ends, after its first message at the earliest: it returns
\* the output path, returns None, or an exception leaves it.
worker_return(w) ==
  /\ workers[w].pc = "pipeline"
  /\ workers[w].sent >= 1
  /\ \E outcome \in {"path", "None", "raised"} :
        workers' = [workers EXCEPT ![w].pc = "finally", ![w].outcome = outcome]
  /\ UNCHANGED <<send_btn, current_file, log_queue, log_view, ui_pc,
                 after_pending, selections>>
  /\ UNCHANGED <<pipeVars, convVars, extractVars>>

\* The finally clause of worker; the thread ends after it.
worker_finally(w) ==
  /\ workers[w].pc = "finally"
  /\ IF PutsDone(workers[w].outcome)
       THEN /\ log_queue' = Put(log_queue, Item("done", w, 0))
            /\ workers' = [workers EXCEPT ![w].pc = "exited", ![w].dones = @ + 1]
       ELSE /\ workers' = [workers EXCEPT ![w].pc = "exited"]
            /\ UNCHANGED log_queue
  /\ UNCHANGED <<send_btn, current_file, log_view, ui_pc, after_pending,
                 selections>>
  /\ UNCHANGED <<pipeVars, convVars, extractVars>>

worker ==
  \E w \in 1..Len(workers) :
    \/ worker_call(w)
    \/ thread_safe_log(w)
    \/ worker_return(w)
    \/ worker_finally(w)

UiNext ==
  \/ choose_file
  \/ run
  \/ process_log_queue
  \/ after_callback
  \/ worker

SpecUI == UiInit /\ [][UiNext]_vars

\* The front end when threads are scheduled fairly, Tk runs the calls it has
\* scheduled, and every call of run_pipeline ends.
SpecUIFair ==
  /\ SpecUI
  /\ WF_vars(process_log_queue)
  /\ WF_vars(after_callback)
  /\ WF_vars(worker)

(* ------------------------------ properties ----------------------------- *)

Last(seq) == seq[Len(seq)]
Range(seq) == { seq[k] : k \in 1..Len(seq) }

\* The current send_to_api call has made its k-th attempt and that attempt
\* ended in a connection-level error.
ConnectionFailedAt(k) == k <= Len(history) /\ history[k].cls = "ConnectionError"

\* send_to_api gave up after its connection retries: it raised the
\* RequestException it builds from last_err.
Exhausted == raised.stage = "submit" /\ raised.cls = "RequestException"

\* C1: one send_to_api call makes at most 3 attempts.  When attempts 1 and 2
\* fail with a connection error and attempt 3 succeeds, the call returns the
\* response of attempt 3 and no further attempt follows; when all 3 attempts
\* fail with a connection error the call raises, after exactly 3 POSTs, an
\* error whose cause is the error of attempt 3.  (For the first batch the
\* POSTs of the call are the POSTs of the run.)
C1_RetryBound ==
  /\ Len(history) <= 3
  /\ Len(submitted) = 1 => posts = Len(history)
  /\ (ConnectionFailedAt(1) /\ ConnectionFailedAt(2) /\ Len(history) = 3
        /\ history[3].cls = "ok")
       => /\ response = history[3].body
          /\ response.attempt = 3
          /\ pc \notin {"Submitting", "RetryDelay"}
  /\ (ConnectionFailedAt(1) /\ ConnectionFailedAt(2) /\ ConnectionFailedAt(3))
       => /\ pc = "Failed"
          /\ Exhausted
          /\ raised.cause = [cls |-> "ConnectionError", attempt |-> 3]
          /\ ~ENABLED Next
  /\ Exhausted => Len(history) = 3 /\ raised.cause = last_err

\* A run whose first batch came back on its third attempt and whose second
\* batch failed all three attempts with connection errors.
C1_Witness ==
  /\ ConnectionFailedAt(1) /\ ConnectionFailedAt(2) /\ ConnectionFailedAt(3)
  /\ pc = "Failed"
  /\ extended = <<1>>
  /\ response.batch = 1 /\ response.attempt = 3
  /\ posts = 6

\* The last attempt of the current send_to_api call got a 4xx/5xx status.
HttpStatusFailed == history # << >> /\ Last(history).cls = "HTTPError"

\* C2: an HTTP status failure is never retried: once an attempt has received
\* a failing status the run has failed (returned None with an error message)
\* and no step of the run, hence no POST of this or a later batch, follows.
C2_HttpStatusNotRetried ==
  HttpStatusFailed
    => /\ pc = "Failed"
       /\ result = None
       /\ lastLevel = "error"
       /\ raised.cls = "HTTPError"
       /\ ~ENABLED Next

\* A failing status on the second attempt of the second batch.
C2_Witness ==
  /\ HttpStatusFailed
  /\ Len(history) = 2
  /\ Len(submitted) = 2
  /\ pc = "Failed"

\* The classes resp.json() raises for a body that is not JSON: requests' own
\* JSONDecodeError (requests >= 2.27) or the standard library's.
ParseErrors == {"RequestsJSONDecodeError", "JSONDecodeError"}

\* C3: a 2xx response whose body cannot be parsed is not retried, whichever
\* class resp.json() raises: the attempt that failed to parse is the last
\* attempt of its batch and the run has failed.
C3_MalformedBodyNotRetried ==
  \A k \in 1..Len(history) :
    history[k].cls \in ParseErrors
      => /\ k = Len(history)
         /\ pc = "Failed"
         /\ ~ENABLED Next

\* C4: a transport failure that is neither an HTTP status failure nor a
\* connection failure (here: too many redirects) is not retried: no attempt
\* follows it, and the run has failed returning None.
C4_OtherTransportNotRetried ==
  \A k \in 1..Len(history) :
    history[k].cls = "TooManyRedirects"
      => /\ Len(history) = k
         /\ pc = "Failed"
         /\ result = None

\* ceil(n / m)
CeilDiv(n, m) == CHOOSE k \in 0..n : k * m >= n /\ (k - 1) * m < n

\* A batch failed fatally: send_to_api raised, or its return value could not
\* be used.
BatchFailed == raised.stage \in {"submit", "extract"}

\* C5: once a batch has failed fatally the output file is neither opened nor
\* written and nothing more happens in the run (no later batch); the save is
\* reached, and the output file touched, only after every one of the
\* ceil(N/M) batches has returned and been accumulated.
C5_NoPartialOutput ==
  /\ BatchFailed => outFile = "absent" /\ pc = "Failed" /\ ~ENABLED Next
  /\ (outFile # "absent" \/ pc \in {"Saving", "Done"})
       => /\ waypoints # << >>
          /\ raised.stage \notin {"submit", "extract"}
          /\ Len(submitted) = CeilDiv(Len(waypoints), maxPerRequest)
          /\ extended = [b \in 1..CeilDiv(Len(waypoints), maxPerRequest) |-> b]

\* The second of three batches failed after the first had succeeded.
C5_Witness ==
  /\ BatchFailed
  /\ pc = "Failed"
  /\ extended = <<1>>
  /\ Len(submitted) = 2
  /\ total_batches = 3
  /\ all_features # << >>
  /\ outFile = "absent"

\* C6: retrying duplicates no work.  No batch number is accumulated twice
\* and a finished run has accumulated every batch; every feature in
\* all_features comes from an accumulated batch; a POST is only ever made
\* for a batch that has not been accumulated yet; all_features grows only in
\* the step of a successful attempt, by exactly the features extracted from
\* the response that attempt returned; a failed attempt leaves it alone.
C6_NoDuplicateWork ==
  /\ [](\A a, b \in 1..Len(extended) : extended[a] = extended[b] => a = b)
  /\ [](pc = "Done" => Range(extended) = 1..total_batches)
  /\ [](\A e \in Range(all_features) : e.batch \in Range(extended))
  /\ [][posts' # posts
          => BatchNum(i, maxPerRequest) \notin Range(extended)]_vars
  /\ [][(all_features' # all_features \/ extended' # extended)
          => /\ posts' = posts + 1
             /\ response'.batch = BatchNum(i, maxPerRequest)
             /\ response'.attempt = attempt
             /\ extended' = Append(extended, BatchNum(i, maxPerRequest))
             /\ all_features' = all_features \o _response_to_features(response')]_vars
  /\ [][(posts' # posts /\ history' # << >> /\ Last(history').cls # "ok")
          => all_features' = all_features /\ extended' = extended]_vars

\* A finished run of two batches in which the first batch needed a retry.
C6_Witness ==
  /\ pc = "Done"
  /\ extended = <<1, 2>>
  /\ posts > 2
  /\ Len(all_features) = 3

\* C7: no throttle sleep precedes the first batch and exactly one precedes
\* every later batch, so after k batches have been entered k-1 sleeps have
\* happened; the sleep before batch k comes when the response of batch k-1
\* has been received and accumulated; a finished run of N >= 1 batches has
\* slept N-1 times.
C7_ThrottleBetweenBatches ==
  /\ Len(submitted) <= 1 => throttles = 0
  /\ Len(submitted) >= 1 => throttles = Len(submitted) - 1
  /\ pc = "Throttling"
       => /\ i > 0
          /\ Len(submitted) >= 1
          /\ Len(extended) = Len(submitted)
          /\ Last(extended) = Len(submitted)
          /\ response.batch = Len(submitted)
          /\ Last(history).cls = "ok"
  /\ pc = "Done" => throttles = total_batches - 1 /\ Len(submitted) = total_batches

\* A finished run of three batches, with its two throttle sleeps.
C7_Witness ==
  /\ pc = "Done"
  /\ total_batches = 3
  /\ throttles = 2

\* The input parses to a document none of whose features qualifies (each
\* lacks a geometry or has fewer than two coordinates).
NoQualifyingFeatures ==
  /\ file.state = "object"
  /\ \A k \in 1..Len(file.features) : Skipped(file.features[k])

\* C8: with no qualifying feature the run ends in the conversion step: it
\* logs an error, returns None without an exception, issues no POST, never
\* enters a batch and leaves the output file absent.
C8_EmptyInputHalts ==
  NoQualifyingFeatures
    => /\ posts = 0
       /\ submitted = << >>
       /\ outFile = "absent"
       /\ pc \in {"Idle", "Reading", "Converting", "Failed"}
       /\ pc = "Failed"
            => /\ waypoints = << >>
               /\ result = None
               /\ lastLevel = "error"
               /\ raised = NoExc
               /\ ~ENABLED Next

\* A document of features that are all skipped, after the run has ended.
C8_Witness ==
  /\ NoQualifyingFeatures
  /\ Len(file.features) >= 2
  /\ pc = "Failed"
  /\ result = None

\* C9: no failure leaves run_pipeline as an exception: a run that has failed
\* at any stage has returned None and its last message is an error; a run
\* goes on after an exception in no case; a run returns the output path only
\* when it is done, and its last message is then a success.
C9_ErrorsReportedNotRaised ==
  /\ pc # "Raised"
  /\ raised # NoExc => pc = "Failed"
  /\ pc = "Failed" => result = None /\ lastLevel = "error" /\ ~ENABLED Next
  /\ result = OutPath <=> pc = "Done"
  /\ pc = "Done" => lastLevel = "success" /\ raised = NoExc /\ ~ENABLED Next
  /\ pc \notin {"Done", "Failed"} => result = Unset

\* A failure that only the catch-all clause handles: the write of the output
\* file failed after every batch had succeeded.
C9_Witness ==
  /\ pc = "Failed"
  /\ raised.stage = "save"
  /\ raised.cls = "PermissionError"
  /\ lastLevel = "error"
  /\ result = None

RECURSIVE Concat(_)
Concat(seqs) == IF seqs = << >> THEN << >> ELSE Head(seqs) \o Concat(Tail(seqs))

\* C10: with N >= 1 waypoints and batch size M, total_batches is ceil(N/M);
\* the batches entered so far are batches 1..B in order (the loop index is at
\* batch B, or at batch B+1 during the throttle sleep); every batch before
\* the last of the run has exactly M waypoints and the last has 1..M; the
\* batches entered so far, concatenated, are the first min(B*M, N) waypoints;
\* a run that reaches the save has entered exactly total_batches batches and
\* their concatenation is the whole waypoint sequence.
C10_Batching ==
  LET N == Len(waypoints)
      M == maxPerRequest
      B == Len(submitted)
  IN B >= 1
       => /\ N >= 1
          /\ total_batches = CeilDiv(N, M)
          /\ B <= total_batches
          /\ pc # "Throttling" => i = (B - 1) * M /\ BatchNum(i, M) = B
          /\ pc = "Throttling" => i = B * M /\ BatchNum(i, M) = B + 1
          /\ \A b \in 1..B :
               /\ b < total_batches => Len(submitted[b]) = M
               /\ b = total_batches => Len(submitted[b]) \in 1..M
          /\ Concat(submitted) = SubSeq(waypoints, 1, Min(B * M, N))
          /\ pc \in {"Saving", "Done"}
               => B = total_batches /\ Concat(submitted) = waypoints

\* A finished run of three waypoints in batches of two: sizes 2 and 1.
C10_Witness ==
  /\ pc = "Done"
  /\ Len(waypoints) = 3
  /\ maxPerRequest = 2
  /\ Len(submitted) = 2
  /\ Len(submitted[1]) = 2
  /\ Len(submitted[2]) = 1

RECURSIVE SumLen(_)
SumLen(seqs) == IF seqs = << >> THEN 0 ELSE Len(Head(seqs)) + SumLen(Tail(seqs))

\* C11: in a run that reaches Done the saved document is a FeatureCollection
\* whose features are the per-batch extracted lists of batches 1, 2, ...,
\* concatenated in that order, nothing dropped, merged or moved, so their
\* number is the sum of the per-batch numbers; all along, all_features is
\* the concatenation of the lists extracted so far.
C11_MergeIsConcatenation ==
  /\ all_features = Concat(batch_features)
  /\ Len(batch_features) = Len(extended)
  /\ pc = "Done"
       => /\ merged.type = "FeatureCollection"
          /\ merged.features = Concat(batch_features)
          /\ Len(batch_features) = total_batches
          /\ Len(merged.features) = SumLen(batch_features)

\* A finished run of three batches (one waypoint each) whose responses held
\* two, one and two features: five merged features from three waypoints.
C11_Witness ==
  /\ pc = "Done"
  /\ Len(waypoints) = 3
  /\ Len(batch_features) = 3
  /\ Len(batch_features[1]) = 2
  /\ Len(batch_features[2]) = 1
  /\ Len(batch_features[3]) = 2
  /\ Len(merged.features) = 5
  /\ merged.features[3].batch = 2

Terminated == pc \in {"Done", "Failed"}

\* C20: a run issues at most 3 POSTs per batch and at most 3 * N in all (N
\* the number of batches); every retry sleep stands between two attempts of
\* one batch: it follows a failed attempt that was not the third, the next
\* step is the next attempt of the same batch, and so the POSTs of a run
\* number its batches entered plus its retry sleeps taken; and when every
\* blocking call returns or fails the run ends in Done or Failed.
C20_BoundedWork ==
  /\ [](Len(history) <= 3)
  /\ [](posts <= 3 * Len(submitted) /\ Len(submitted) <= total_batches)
  /\ [](posts = Len(submitted) + retrySleeps - (IF pc = "Submitting" THEN 1 ELSE 0))
  /\ [](pc = "RetryDelay"
          => Len(history) \in 1..2 /\ Last(history).cls # "ok" /\ attempt = Len(history))
  /\ [][retrySleeps' # retrySleeps
          => /\ retrySleeps' = retrySleeps + 1
             /\ pc' = "Submitting"
             /\ attempt' = attempt + 1 /\ attempt' <= 3
             /\ i' = i /\ submitted' = submitted /\ posts' = posts]_vars
  /\ <>Terminated

\* A finished run of three batches, each answered on its third attempt: nine
\* POSTs and six retry sleeps.
C20_Witness ==
  /\ pc = "Done"
  /\ total_batches = 3
  /\ posts = 9
  /\ retrySleeps = 6

(* ------------------------ properties of the converter ------------------ *)

\* The calls of the converter made so far.
ConvCalls ==
  IF conv_pc = "No" THEN {}
  ELSE IF conv_pc = "Once" THEN {conv_first}
  ELSE {conv_first, conv_second}

\* A feature whose geometry has at least two coordinate components, and the
\* one-based positions of such features in a document, in order.
Qualifies(f) == Len(f.coordinates) >= 2

Survivors(doc) ==
  SelectSeq([n \in 1..Len(doc) |-> n], LAMBDA n : Qualifies(doc[n]))

\* C14: in the output of the converter, the waypoint of a feature that has
\* both a `timestamp` and a `t` property carries the rendering of
\* `timestamp`, whatever its value (0, 0.0 and "" included), and the waypoint
\* of a feature that has neither carries index * 10 seconds since the epoch,
\* index being the feature's zero-based position among all features of the
\* document, skipped ones counted.
C14_TimestampPrecedence ==
  \A c \in ConvCalls :
    c.err = None =>
      \A k \in 1..Len(c.waypoints) :
        LET n == Survivors(conv_doc)[k]
            f == conv_doc[n]
        IN /\ (f.timestamp # Absent /\ f.t # Absent)
                => c.waypoints[k].timestamp = timestamp_to_iso(f.timestamp, c.now)
           /\ (f.timestamp = Absent /\ f.t = Absent)
                => c.waypoints[k].timestamp = StrfTime((n - 1) * 10)

\* C15 as stated: two calls of the converter on the same document give the
\* same result, for every document.
C15_ConversionIdempotent ==
  conv_pc = "Twice"
    => /\ conv_first.err = conv_second.err
       /\ conv_first.waypoints = conv_second.waypoints

\* A document in which the timestamp resolved for some qualifying feature is
\* neither a number nor a string, so that _timestamp_to_iso reads the clock.
ClockFallback(doc) ==
  \E n \in 1..Len(doc) :
    /\ Qualifies(doc[n])
    /\ ResolvedTs(doc[n], n - 1).k \notin {"int", "float", "str"}

\* C15, amended: two calls of the converter on the same document raise the
\* same exception or none, and give the same waypoints unless the timestamp
\* resolved for some qualifying feature is neither a number nor a string and
\* the clock has moved to another second between the calls; in that case
\* the waypoints differ.
C15_IdempotentUnlessClockRead ==
  conv_pc = "Twice"
    => /\ conv_first.err = conv_second.err
       /\ (~ClockFallback(conv_doc) \/ conv_first.now = conv_second.now)
            => conv_first.waypoints = conv_second.waypoints
       /\ ( /\ ClockFallback(conv_doc)
            /\ conv_first.now # conv_second.now
            /\ conv_first.err = None )
            => conv_first.waypoints # conv_second.waypoints

\* Two calls a minute apart on a document with a text timestamp, a numeric
\* one and none: the same three waypoints.
C15_Witness ==
  /\ conv_pc = "Twice"
  /\ conv_first.now # conv_second.now
  /\ conv_doc = << Feature(Point3, Val("str", 1), Absent),
                   Feature(Point3, Val("int", 70), Val("int", 80)),
                   Feature(Point, Absent, Absent) >>
  /\ Len(conv_first.waypoints) = 3
  /\ conv_first.waypoints = conv_second.waypoints

\* C16: a call of the converter that returns has one waypoint for each
\* feature whose geometry has at least two coordinate components, in the
\* order of those features, each located at the feature's first two
\* coordinates as floats; the call returns unless float() rejects one of
\* those coordinates, so a feature without geometry or with fewer than two
\* coordinates never makes it fail.
C16_ConverterOutput ==
  \A c \in ConvCalls :
    LET surv == SelectSeq(conv_doc, Qualifies)
    IN /\ c.err = None
            <=> \A k \in 1..Len(surv) :
                  /\ surv[k].coordinates[1].k \in {"int", "float"}
                  /\ surv[k].coordinates[2].k \in {"int", "float"}
       /\ c.err = None
            => /\ Len(c.waypoints) = Len(surv)
               /\ \A k \in 1..Len(surv) :
                    c.waypoints[k].location =
                      << Val("float", surv[k].coordinates[1].v),
                         Val("float", surv[k].coordinates[2].v) >>

\* A point, a feature without geometry and a three-component point: two
\* waypoints, in that order.
C16_Witness ==
  /\ conv_pc = "Once"
  /\ conv_doc = << Feature(Point, Absent, Absent),
                   Feature(<< >>, Absent, Absent),
                   Feature(Point3, Absent, Val("int", 80)) >>
  /\ conv_first.err = None
  /\ Len(conv_first.waypoints) = 2
  /\ conv_first.waypoints[1].location = <<Val("float", 10), Val("float", 50)>>
  /\ conv_first.waypoints[2].location = <<Val("float", 11), Val("float", 51)>>

(* --------------------- properties of the feature extraction ------------ *)

\* C17: the list extracted from a response is (a) its `features` list as it
\* is when it has one, whatever its type and whether or not it has a
\* geometry; otherwise (b) the response itself as the only element when its
\* type is Feature; otherwise (c) one synthesized feature when it has a
\* geometry; otherwise (d) empty.
C17_ExtractionPrecedence ==
  extract_pc = "Called"
    => LET r == extract_resp
           whole == [src |-> "whole", batch |-> r.batch, j |-> 0]
           synth == [src |-> "synth", batch |-> r.batch, j |-> 0]
       IN /\ r.hasFeaturesList => extract_out = r.features
          /\ (~r.hasFeaturesList /\ r.type = "Feature") => extract_out = <<whole>>
          /\ (~r.hasFeaturesList /\ r.type # "Feature" /\ r.hasGeometry)
               => extract_out = <<synth>>
          /\ (~r.hasFeaturesList /\ r.type # "Feature" /\ ~r.hasGeometry)
               => extract_out = << >>

\* A response typed Feature that has a geometry and a list of two features:
\* the two listed features are the result.
C17_Witness ==
  /\ extract_pc = "Called"
  /\ extract_resp.type = "Feature"
  /\ extract_resp.hasGeometry
  /\ extract_resp.hasFeaturesList
  /\ Len(extract_resp.features) = 2
  /\ extract_out = extract_resp.features
  /\ extract_out[2].src = "listed"

(* ------------------------ properties of the front end ------------------ *)

\* A worker thread that has not finished its finally clause.
Active(w) == workers[w].pc # "exited"

IsDone(item) == item.kind = "done"
IsMsg(item) == item.kind = "msg"

\* C12: at most one worker is active at any moment; the button is disabled
\* exactly from the start of a run until the main thread has taken that
\* run's completion item from the queue; and a worker is only ever started
\* in a state where the button is enabled.
C12_NoConcurrentRuns ==
  /\ [](Cardinality({ w \in 1..Len(workers) : Active(w) }) <= 1)
  /\ [](send_btn = "normal"
          <=> \/ workers = << >>
              \/ /\ ~Active(Len(workers))
                 /\ SelectSeq(log_queue, IsDone) = << >>)
  /\ [][Len(workers') > Len(workers) => send_btn = "normal"]_vars

\* The second run's worker is inside run_pipeline after the first run's
\* worker has ended; the button is disabled.
C12_Witness ==
  /\ Len(workers) = 2
  /\ workers[1].pc = "exited"
  /\ workers[2].pc = "pipeline"
  /\ send_btn = "disabled"

\* C13: the path a worker passes to run_pipeline is the path that was
\* selected when its run was triggered, whatever the main thread does
\* between the start of the thread and the thread's first step.
C13_PathReadAtTrigger ==
  \A w \in 1..Len(workers) :
    workers[w].pc # "start" => workers[w].path = workers[w].triggered

\* C18: the messages of the current run shown in the log view, followed by
\* those still in the queue, are the messages its worker has emitted, each
\* once and in emission order, and no message of another run is among them;
\* a completion item in the queue is the only one and the last item; and
\* when the button is enabled the queue is empty and every message the last
\* worker emitted is in the log view.
C18_ProgressQueueOrder ==
  LET r == Len(workers)
      shown == SelectSeq(log_view, IsMsg)
      queued == SelectSeq(log_queue, IsMsg)
  IN /\ r = 0 => shown = << >> /\ log_queue = << >>
     /\ r > 0 =>
          /\ shown \o queued = [k \in 1..workers[r].sent |-> Item("msg", r, k)]
          /\ SelectSeq(log_queue, IsDone) # << >>
               => /\ log_queue = Append(queued, Item("done", r, 0))
                  /\ workers[r].pc = "exited"
          /\ send_btn = "normal"
               => /\ log_queue = << >>
                  /\ Len(shown) = workers[r].sent
                  /\ workers[r].pc = "exited"

\* The second run is over: its two messages are in the log view, in order,
\* below the line of a file selection made during the run.
C18_Witness ==
  /\ Len(workers) = 2
  /\ workers[2].sent = 2
  /\ send_btn = "normal"
  /\ log_queue = << >>
  /\ log_view = << Item("msg", 2, 1), Item("chosen", 0, 0), Item("msg", 2, 2) >>

\* C19: a worker puts the completion item at most once, and exactly once by
\* the time it ends, whether run_pipeline returned or an exception left it;
\* whenever the button is enabled no call of process_log_queue is running
\* or scheduled; and under fair scheduling a disabled button is eventually
\* enabled again.
C19_CompletionLiveness ==
  /\ [](\A w \in 1..Len(workers) :
          /\ workers[w].dones <= 1
          /\ workers[w].pc = "exited" => workers[w].dones = 1)
  /\ [](send_btn = "normal" => after_pending = 0 /\ ui_pc = "mainloop")
  /\ (send_btn = "disabled") ~> (send_btn = "normal")

\* An exception left run_pipeline in the first run; the button is enabled
\* again and nothing is scheduled.
C19_Witness ==
  /\ Len(workers) = 1
  /\ workers[1].outcome = "raised"
  /\ workers[1].dones = 1
  /\ send_btn = "normal"
  /\ after_pending = 0

====
